---- MODULE Spec2Model ----
(***************************************************************************)
(* A model of quicksort.c: the three-way partition, merge, the sequential  *)
(* quicksort, the pthread-per-call quicksort_threaded with its mutex       *)
(* protected thread_count, and the part of main that runs both sorts.      *)
(*                                                                         *)
(* Buffers are heap objects named <<kind, id, field>>; a pointer is such a *)
(* name or NULL.  heap maps every live buffer to the elements written to   *)
(* it.  Recursion frames and threads are numbered as a binary tree: the    *)
(* top-level call is 1, the call on `less` of call n is 2n and the call on *)
(* `more` is 2n+1.  Returned frames and terminated threads stay in the     *)
(* state (pc "returned"/"done"/"exited") as the record of what they did.   *)
(***************************************************************************)
EXTENDS Integers, Sequences, FiniteSets, TLC

\* Bounds of the model.
MaxLen == 3
MaxVal == 2
FailMaxLen == 2
MaxFail == 1
PartMaxLen == 5
PartMaxVal == 4

Values == 1..MaxVal
Inputs == UNION {[1..n -> Values] : n \in 0..MaxLen}
FailInputs == UNION {[1..n -> Values] : n \in 0..FailMaxLen}
PartValues == 1..PartMaxVal
PartInputs == UNION {[1..n -> PartValues] : n \in 1..PartMaxLen}

VARIABLES
    input,                \* the integers of the input file
    heap,                 \* live buffers: name -> elements
    freed,                \* names of the buffers passed to free()
    failures,             \* number of malloc calls that returned NULL
    faults,               \* how many malloc calls the environment may fail
    size,                 \* main: number of integers read
    mainpc,               \* main: position
    sorted_non_threaded,  \* main: pointer returned by quicksort
    sorted_threaded,      \* main: pointer obtained by pthread_join
    exit_status,          \* main: return value (-1 while running)
    frames,               \* sequential quicksort: call id -> frame
    tasks,                \* quicksort_threaded: thread id -> frame
    thread_count,         \* global counter
    thread_count_mutex,   \* 0 when unlocked, else the owning thread id
    part                  \* a stand-alone call of partition (PartSpec)

vars == <<input, heap, freed, failures, faults, size, mainpc, sorted_non_threaded,
          sorted_threaded, exit_status, frames, tasks, thread_count,
          thread_count_mutex, part>>

NULL == <<"null", 0, "null">>
DataBuf == <<"main", 0, "data">>
Buf(kind, id, field) == <<kind, id, field>>
Fields == {"less", "more", "equal"}

\* free(p): free(NULL) does nothing.
Free(h, ps) == [b \in DOMAIN h \ ps |-> h[b]]
FreedBy(ps) == ps \ {NULL}

\* The three malloc calls of partition: which of them may return NULL.
AllocFailures == {F \in SUBSET Fields : Cardinality(F) + failures <= faults}
\* A single malloc call: TRUE when it succeeds.
MallocOutcomes == IF failures < faults THEN {TRUE, FALSE} ELSE {TRUE}

\* ------------------------------------------------------------ partition
\* LoopBody with the pivot's equals sent to `less` (<= for <).
LoopBodyLe(acc, x, pivot) ==
    IF x <= pivot THEN [acc EXCEPT !.less = Append(@, x)]
    ELSE IF x > pivot THEN [acc EXCEPT !.more = Append(@, x)]
    ELSE [acc EXCEPT !.equal = Append(@, x)]

\* One iteration of the loop of partition, on element x.
LoopBody(acc, x, pivot) ==
    IF x < pivot THEN [acc EXCEPT !.less = Append(@, x)]
    ELSE IF x > pivot THEN [acc EXCEPT !.more = Append(@, x)]
    ELSE [acc EXCEPT !.equal = Append(@, x)]

RECURSIVE PartitionLoop(_, _, _, _, _)
PartitionLoop(arr, n, pivot, i, acc) ==
    IF i > n THEN acc
    ELSE PartitionLoop(arr, n, pivot, i + 1, LoopBody(acc, arr[i], pivot))

\* partition(arr, size, pivot, ...), `failed` being the malloc calls that
\* returned NULL.  On failure nothing is freed: `live` are the buffers the
\* call leaves allocated.
partition(arr, n, pivot, failed) ==
    IF failed # {}
    THEN [rc |-> -1, live |-> Fields \ failed,
          less |-> <<>>, more |-> <<>>, equal |-> <<>>]
    ELSE [rc |-> 0, live |-> Fields] @@
         PartitionLoop(arr, n, pivot, 1,
                       [less |-> <<>>, more |-> <<>>, equal |-> <<>>])

\* ---------------------------------------------------------------- merge
\* merge copying `more` first and `less` last.
mergeSwapped(less, less_size, equal, equal_size, more, more_size) ==
    SubSeq(more, 1, more_size) \o SubSeq(equal, 1, equal_size)
        \o SubSeq(less, 1, less_size)

\* merge(result, less, less_size, equal, equal_size, more, more_size): the
\* three memcpy calls, on the contents of the three sources.
merge(less, less_size, equal, equal_size, more, more_size) ==
    SubSeq(less, 1, less_size) \o SubSeq(equal, 1, equal_size)
        \o SubSeq(more, 1, more_size)

\* What memcpy reads from p for n elements.  n = 0 copies nothing (this is
\* how the NULL result of an empty sub-sort is merged).  n > 0 from NULL is
\* undefined behaviour: g stands for whatever is read if the process
\* survives.
Src(h, p, n, g) == IF n = 0 THEN <<>> ELSE IF p = NULL THEN g ELSE h[p]
\* An indeterminate int: no claim may rely on its value.
Indeterminate == 0
Garbage(p, n) ==
    IF n > 0 /\ p = NULL THEN {[i \in 1..n |-> Indeterminate]} ELSE {<<>>}

NewFrame(d, n) ==
    [pc |-> "start", data |-> d, size |-> n, pivot |-> 0, rc |-> 0,
     less |-> NULL, more |-> NULL, equal |-> NULL,
     less_size |-> 0, more_size |-> 0, equal_size |-> 0,
     sorted_less |-> NULL, sorted_more |-> NULL,
     result |-> NULL, retval |-> NULL, reg |-> 0]

\* The frame after partition returned p; buffers named by kind and id.
Partitioned(fr, kind, id, p) ==
    [fr EXCEPT !.rc = p.rc,
               !.less = Buf(kind, id, "less"),
               !.more = Buf(kind, id, "more"),
               !.equal = Buf(kind, id, "equal"),
               !.less_size = Len(p.less),
               !.more_size = Len(p.more),
               !.equal_size = Len(p.equal)]

\* PartitionHeap of a partition that also writes less, equal, more back
\* over the top-level input array.
PartitionHeapInPlace(h, kind, id, p) ==
    LET all == p.less \o p.equal \o p.more
        new == [b \in {Buf(kind, id, f) : f \in p.live} |->
                  IF p.rc # 0 THEN <<>> ELSE p[b[3]]]
    IN [b \in DOMAIN h |->
          IF b = DataBuf /\ p.rc = 0 /\ Len(all) = Len(h[b]) THEN all
          ELSE h[b]] @@ new

\* The heap after a call of partition by (kind, id).
PartitionHeap(h, kind, id, p) ==
    h @@ [b \in {Buf(kind, id, f) : f \in p.live} |->
            IF p.rc # 0 THEN <<>> ELSE p[b[3]]]

\* merge's sources are unreadable, or its destination is NULL.
MergeUndefined(fr, ok) ==
    \/ ~ok
    \/ fr.less_size > 0 /\ fr.sorted_less = NULL
    \/ fr.more_size > 0 /\ fr.sorted_more = NULL

\* result = malloc(...); merge(result, sorted_less, ..., equal, ..., sorted_more, ...)
\* ok: whether malloc succeeded; gl, gm: what is read through a NULL source.
Merged(h, fr, kind, id, ok, gl, gm) ==
    IF ok
    THEN h @@ (Buf(kind, id, "result") :>
               merge(Src(h, fr.sorted_less, fr.less_size, gl), fr.less_size,
                     h[fr.equal], fr.equal_size,
                     Src(h, fr.sorted_more, fr.more_size, gm), fr.more_size))
    ELSE h

\* Intermediates without the free of sorted_more.
IntermediatesNoSortedMore(fr) == {fr.less, fr.more, fr.equal, fr.sorted_less}

\* The five free calls that end both sorts.
Intermediates(fr) == {fr.less, fr.more, fr.equal, fr.sorted_less, fr.sorted_more}

\* quicksort(size, data) as a function of the contents of data, when no
\* malloc fails: the sequence its result holds.
RECURSIVE quicksort(_, _)
quicksort(n, data) ==
    IF n = 0 THEN <<>>
    ELSE LET p == PartitionLoop(data, n, data[1], 1,
                                [less |-> <<>>, more |-> <<>>, equal |-> <<>>])
         IN merge(quicksort(Len(p.less), p.less), Len(p.less),
                  p.equal, Len(p.equal),
                  quicksort(Len(p.more), p.more), Len(p.more))

\* --------------------------------------------------- sequential quicksort
SeqRunning == mainpc = "in_seq"

\* if (size == 0) return NULL;
SeqBase(f) ==
    /\ SeqRunning
    /\ frames[f].pc = "start"
    /\ frames[f].size = 0
    /\ frames' = [frames EXCEPT ![f].pc = "returned", ![f].retval = NULL]
    /\ UNCHANGED <<input, heap, freed, failures, faults, size, mainpc,
                   sorted_non_threaded, sorted_threaded, exit_status, tasks,
                   thread_count, thread_count_mutex, part>>

\* pivot = data[0]; if (partition(...) < 0) return NULL;
SeqPartition(f) ==
    /\ SeqRunning
    /\ frames[f].pc = "start"
    /\ frames[f].size > 0
    /\ \E failed \in AllocFailures :
         LET fr == frames[f]
             pivot == heap[fr.data][1]
             p == partition(heap[fr.data], fr.size, pivot, failed)
         IN /\ heap' = PartitionHeap(heap, "seq", f, p)
            /\ failures' = failures + Cardinality(failed)
            /\ frames' = [frames EXCEPT ![f] =
                 IF p.rc < 0
                 THEN [fr EXCEPT !.pivot = pivot, !.rc = p.rc,
                                 !.pc = "returned", !.retval = NULL]
                 ELSE [Partitioned(fr, "seq", f, p) EXCEPT
                                 !.pivot = pivot, !.pc = "call_less"]]
    /\ UNCHANGED <<input, faults, freed, size, mainpc, sorted_non_threaded,
                   sorted_threaded, exit_status, tasks, thread_count,
                   thread_count_mutex, part>>

\* sorted_less = quicksort(less_size, less): the call
SeqCallLess(f) ==
    /\ SeqRunning
    /\ frames[f].pc = "call_less"
    /\ frames' = [frames EXCEPT ![f].pc = "in_less"] @@
                 (2 * f :> NewFrame(frames[f].less, frames[f].less_size))
    /\ UNCHANGED <<input, heap, freed, failures, faults, size, mainpc,
                   sorted_non_threaded, sorted_threaded, exit_status, tasks,
                   thread_count, thread_count_mutex, part>>

\* sorted_less = quicksort(less_size, less): the return
SeqRetLess(f) ==
    /\ SeqRunning
    /\ frames[f].pc = "in_less"
    /\ frames[2 * f].pc = "returned"
    /\ frames' = [frames EXCEPT ![f].pc = "call_more",
                                ![f].sorted_less = frames[2 * f].retval]
    /\ UNCHANGED <<input, heap, freed, failures, faults, size, mainpc,
                   sorted_non_threaded, sorted_threaded, exit_status, tasks,
                   thread_count, thread_count_mutex, part>>

\* sorted_more = quicksort(more_size, more): the call
SeqCallMore(f) ==
    /\ SeqRunning
    /\ frames[f].pc = "call_more"
    /\ frames' = [frames EXCEPT ![f].pc = "in_more"] @@
                 (2 * f + 1 :> NewFrame(frames[f].more, frames[f].more_size))
    /\ UNCHANGED <<input, heap, freed, failures, faults, size, mainpc,
                   sorted_non_threaded, sorted_threaded, exit_status, tasks,
                   thread_count, thread_count_mutex, part>>

\* sorted_more = quicksort(more_size, more): the return
SeqRetMore(f) ==
    /\ SeqRunning
    /\ frames[f].pc = "in_more"
    /\ frames[2 * f + 1].pc = "returned"
    /\ frames' = [frames EXCEPT ![f].pc = "merge",
                                ![f].sorted_more = frames[2 * f + 1].retval]
    /\ UNCHANGED <<input, heap, freed, failures, faults, size, mainpc,
                   sorted_non_threaded, sorted_threaded, exit_status, tasks,
                   thread_count, thread_count_mutex, part>>

\* result = malloc(size * sizeof(int)); merge(result, ...);
\* Undefined behaviour (a NULL source of non-zero length, a NULL result)
\* either kills the process or lets it run on with whatever was read.
SeqMerge(f) ==
    /\ SeqRunning
    /\ frames[f].pc = "merge"
    /\ LET fr == frames[f] IN
       \E ok \in MallocOutcomes, crash \in BOOLEAN,
          gl \in Garbage(fr.sorted_less, fr.less_size),
          gm \in Garbage(fr.sorted_more, fr.more_size) :
         /\ crash => MergeUndefined(fr, ok)
         /\ failures' = IF ok THEN failures ELSE failures + 1
         /\ heap' = Merged(heap, fr, "seq", f, ok, gl, gm)
         /\ frames' = [frames EXCEPT
                ![f].pc = "free",
                ![f].result = IF ok THEN Buf("seq", f, "result") ELSE NULL]
         /\ mainpc' = IF crash THEN "crashed" ELSE mainpc
    /\ UNCHANGED <<input, faults, freed, size, sorted_non_threaded, sorted_threaded,
                   exit_status, tasks, thread_count, thread_count_mutex, part>>

\* free(less); free(more); free(equal); free(sorted_less);
\* free(sorted_more); return result;
SeqFree(f) ==
    /\ SeqRunning
    /\ frames[f].pc = "free"
    /\ heap' = Free(heap, Intermediates(frames[f]))
    /\ freed' = freed \cup FreedBy(Intermediates(frames[f]))
    /\ frames' = [frames EXCEPT ![f].pc = "returned",
                                ![f].retval = frames[f].result]
    /\ UNCHANGED <<input, faults, failures, size, mainpc, sorted_non_threaded,
                   sorted_threaded, exit_status, tasks, thread_count,
                   thread_count_mutex, part>>

\* ------------------------------------------------------ quicksort_threaded
ThrRunning == mainpc = "join"

Terminated(t) == t \in DOMAIN tasks /\ tasks[t].pc \in {"done", "exited"}

\* ArgsOf with more_args built from less and less_size.
ArgsOfLessTwice(t) ==
    IF t = 1 THEN [data |-> DataBuf, size |-> size]
    ELSE [data |-> tasks[t \div 2].less, size |-> tasks[t \div 2].less_size]

\* The ThreadArgs a thread was created with: main's args for the top-level
\* thread, else the parent's less_args or more_args.
ArgsOf(t) ==
    IF t = 1 THEN [data |-> DataBuf, size |-> size]
    ELSE IF t % 2 = 0
    THEN [data |-> tasks[t \div 2].less, size |-> tasks[t \div 2].less_size]
    ELSE [data |-> tasks[t \div 2].more, size |-> tasks[t \div 2].more_size]

\* Lock that does not wait for the mutex to be free.
LockNoWait(t) ==
    /\ ThrRunning
    /\ tasks[t].pc = "lock"
    /\ thread_count_mutex' = t
    /\ tasks' = [tasks EXCEPT ![t].pc = "load"]
    /\ UNCHANGED <<input, heap, freed, failures, faults, size, mainpc,
                   sorted_non_threaded, sorted_threaded, exit_status, frames,
                   thread_count, part>>

\* pthread_mutex_lock(&thread_count_mutex);
Lock(t) ==
    /\ ThrRunning
    /\ tasks[t].pc = "lock"
    /\ thread_count_mutex = 0
    /\ thread_count_mutex' = t
    /\ tasks' = [tasks EXCEPT ![t].pc = "load"]
    /\ UNCHANGED <<input, heap, freed, failures, faults, size, mainpc,
                   sorted_non_threaded, sorted_threaded, exit_status, frames,
                   thread_count, part>>

\* thread_count++: the read
Load(t) ==
    /\ ThrRunning
    /\ tasks[t].pc = "load"
    /\ tasks' = [tasks EXCEPT ![t].pc = "store", ![t].reg = thread_count]
    /\ UNCHANGED <<input, heap, freed, failures, faults, size, mainpc,
                   sorted_non_threaded, sorted_threaded, exit_status, frames,
                   thread_count, thread_count_mutex, part>>

\* Store that counts only the invocations on a non-empty sequence.
StoreNonEmptyOnly(t) ==
    /\ ThrRunning
    /\ tasks[t].pc = "store"
    /\ thread_count' = tasks[t].reg + (IF ArgsOf(t).size = 0 THEN 0 ELSE 1)
    /\ tasks' = [tasks EXCEPT ![t].pc = "unlock"]
    /\ UNCHANGED <<input, heap, freed, failures, faults, size, mainpc,
                   sorted_non_threaded, sorted_threaded, exit_status, frames,
                   thread_count_mutex, part>>

\* thread_count++: the write
Store(t) ==
    /\ ThrRunning
    /\ tasks[t].pc = "store"
    /\ thread_count' = tasks[t].reg + 1
    /\ tasks' = [tasks EXCEPT ![t].pc = "unlock"]
    /\ UNCHANGED <<input, heap, freed, failures, faults, size, mainpc,
                   sorted_non_threaded, sorted_threaded, exit_status, frames,
                   thread_count_mutex, part>>

\* Unlock that leaves the mutex held.
UnlockKeepsMutex(t) ==
    /\ ThrRunning
    /\ tasks[t].pc = "unlock"
    /\ tasks' = [tasks EXCEPT ![t].pc = "start"]
    /\ UNCHANGED <<input, heap, freed, failures, faults, size, mainpc,
                   sorted_non_threaded, sorted_threaded, exit_status, frames,
                   thread_count, thread_count_mutex, part>>

\* pthread_mutex_unlock(&thread_count_mutex);
Unlock(t) ==
    /\ ThrRunning
    /\ tasks[t].pc = "unlock"
    /\ thread_count_mutex' = 0
    /\ tasks' = [tasks EXCEPT ![t].pc = "start"]
    /\ UNCHANGED <<input, heap, freed, failures, faults, size, mainpc,
                   sorted_non_threaded, sorted_threaded, exit_status, frames,
                   thread_count, part>>

\* ThrBase that treats the empty sequence as a failure (pthread_exit).
ThrBaseAsFailure(t) ==
    /\ ThrRunning
    /\ tasks[t].pc = "start"
    /\ ArgsOf(t).size = 0
    /\ tasks' = [tasks EXCEPT ![t].pc = "exited", ![t].retval = NULL,
                              ![t].rc = -1,
                              ![t].data = ArgsOf(t).data,
                              ![t].size = ArgsOf(t).size]
    /\ UNCHANGED <<input, heap, freed, failures, faults, size, mainpc,
                   sorted_non_threaded, sorted_threaded, exit_status, frames,
                   thread_count, thread_count_mutex, part>>

\* size = input->size; data = input->data; if (size == 0) return NULL;
ThrBase(t) ==
    /\ ThrRunning
    /\ tasks[t].pc = "start"
    /\ ArgsOf(t).size = 0
    /\ tasks' = [tasks EXCEPT ![t].pc = "done", ![t].retval = NULL,
                              ![t].data = ArgsOf(t).data,
                              ![t].size = ArgsOf(t).size]
    /\ UNCHANGED <<input, heap, freed, failures, faults, size, mainpc,
                   sorted_non_threaded, sorted_threaded, exit_status, frames,
                   thread_count, thread_count_mutex, part>>

\* ThrPartition without the test of partition's return value.
ThrPartitionNoCheck(t) ==
    /\ ThrRunning
    /\ tasks[t].pc = "start"
    /\ ArgsOf(t).size > 0
    /\ \E failed \in AllocFailures :
         LET fr == [tasks[t] EXCEPT !.data = ArgsOf(t).data,
                                    !.size = ArgsOf(t).size]
             pivot == heap[fr.data][1]
             p == partition(heap[fr.data], fr.size, pivot, failed)
         IN /\ heap' = PartitionHeap(heap, "thr", t, p)
            /\ failures' = failures + Cardinality(failed)
            /\ tasks' = [tasks EXCEPT ![t] =
                 [Partitioned(fr, "thr", t, p) EXCEPT
                                 !.pivot = pivot, !.pc = "create_less"]]
    /\ UNCHANGED <<input, faults, freed, size, mainpc, sorted_non_threaded,
                   sorted_threaded, exit_status, frames, thread_count,
                   thread_count_mutex, part>>

\* pivot = data[0]; if (partition(...) < 0) pthread_exit(NULL);
ThrPartition(t) ==
    /\ ThrRunning
    /\ tasks[t].pc = "start"
    /\ ArgsOf(t).size > 0
    /\ \E failed \in AllocFailures :
         LET fr == [tasks[t] EXCEPT !.data = ArgsOf(t).data,
                                    !.size = ArgsOf(t).size]
             pivot == heap[fr.data][1]
             p == partition(heap[fr.data], fr.size, pivot, failed)
         IN /\ heap' = PartitionHeap(heap, "thr", t, p)
            /\ failures' = failures + Cardinality(failed)
            /\ tasks' = [tasks EXCEPT ![t] =
                 IF p.rc < 0
                 THEN [fr EXCEPT !.pivot = pivot, !.rc = p.rc,
                                 !.pc = "exited", !.retval = NULL]
                 ELSE [Partitioned(fr, "thr", t, p) EXCEPT
                                 !.pivot = pivot, !.pc = "create_less"]]
    /\ UNCHANGED <<input, faults, freed, size, mainpc, sorted_non_threaded,
                   sorted_threaded, exit_status, frames, thread_count,
                   thread_count_mutex, part>>

\* A thread as pthread_create starts it.
NewTask == [NewFrame(NULL, 0) EXCEPT !.pc = "lock"]

\* pthread_create(&less_thread, NULL, quicksort_threaded, &less_args);
CreateLess(t) ==
    /\ ThrRunning
    /\ tasks[t].pc = "create_less"
    /\ tasks' = [tasks EXCEPT ![t].pc = "create_more"] @@ (2 * t :> NewTask)
    /\ UNCHANGED <<input, heap, freed, failures, faults, size, mainpc,
                   sorted_non_threaded, sorted_threaded, exit_status, frames,
                   thread_count, thread_count_mutex, part>>

\* pthread_create(&more_thread, NULL, quicksort_threaded, &more_args);
CreateMore(t) ==
    /\ ThrRunning
    /\ tasks[t].pc = "create_more"
    /\ tasks' = [tasks EXCEPT ![t].pc = "join_less"] @@ (2 * t + 1 :> NewTask)
    /\ UNCHANGED <<input, heap, freed, failures, faults, size, mainpc,
                   sorted_non_threaded, sorted_threaded, exit_status, frames,
                   thread_count, thread_count_mutex, part>>

\* pthread_join(less_thread, &sorted_less);
JoinLess(t) ==
    /\ ThrRunning
    /\ tasks[t].pc = "join_less"
    /\ Terminated(2 * t)
    /\ tasks' = [tasks EXCEPT ![t].pc = "join_more",
                              ![t].sorted_less = tasks[2 * t].retval]
    /\ UNCHANGED <<input, heap, freed, failures, faults, size, mainpc,
                   sorted_non_threaded, sorted_threaded, exit_status, frames,
                   thread_count, thread_count_mutex, part>>

\* JoinMore that does not wait for more_thread to terminate.
JoinMoreNoWait(t) ==
    /\ ThrRunning
    /\ tasks[t].pc = "join_more"
    /\ tasks' = [tasks EXCEPT ![t].pc = "merge",
                              ![t].sorted_more = tasks[2 * t + 1].retval]
    /\ UNCHANGED <<input, heap, freed, failures, faults, size, mainpc,
                   sorted_non_threaded, sorted_threaded, exit_status, frames,
                   thread_count, thread_count_mutex, part>>

\* pthread_join(more_thread, &sorted_more);
JoinMore(t) ==
    /\ ThrRunning
    /\ tasks[t].pc = "join_more"
    /\ Terminated(2 * t + 1)
    /\ tasks' = [tasks EXCEPT ![t].pc = "merge",
                              ![t].sorted_more = tasks[2 * t + 1].retval]
    /\ UNCHANGED <<input, heap, freed, failures, faults, size, mainpc,
                   sorted_non_threaded, sorted_threaded, exit_status, frames,
                   thread_count, thread_count_mutex, part>>

\* result = malloc(size * sizeof(int)); merge(result, ...);
\* Undefined behaviour as in the sequential sort.
ThrMerge(t) ==
    /\ ThrRunning
    /\ tasks[t].pc = "merge"
    /\ LET fr == tasks[t] IN
       \E ok \in MallocOutcomes, crash \in BOOLEAN,
          gl \in Garbage(fr.sorted_less, fr.less_size),
          gm \in Garbage(fr.sorted_more, fr.more_size) :
         /\ crash => MergeUndefined(fr, ok)
         /\ failures' = IF ok THEN failures ELSE failures + 1
         /\ heap' = Merged(heap, fr, "thr", t, ok, gl, gm)
         /\ tasks' = [tasks EXCEPT
                ![t].pc = "free",
                ![t].result = IF ok THEN Buf("thr", t, "result") ELSE NULL]
         /\ mainpc' = IF crash THEN "crashed" ELSE mainpc
    /\ UNCHANGED <<input, faults, freed, size, sorted_non_threaded, sorted_threaded,
                   exit_status, frames, thread_count, thread_count_mutex, part>>

\* free(less); free(more); free(equal); free(sorted_less);
\* free(sorted_more); return result;
ThrFree(t) ==
    /\ ThrRunning
    /\ tasks[t].pc = "free"
    /\ heap' = Free(heap, Intermediates(tasks[t]))
    /\ freed' = freed \cup FreedBy(Intermediates(tasks[t]))
    /\ tasks' = [tasks EXCEPT ![t].pc = "done",
                              ![t].retval = tasks[t].result]
    /\ UNCHANGED <<input, faults, failures, size, mainpc, sorted_non_threaded,
                   sorted_threaded, exit_status, frames, thread_count,
                   thread_count_mutex, part>>

\* -------------------------------------------------------------------- main
\* int *sorted_non_threaded = quicksort(size, data): the call
MainCallSeq ==
    /\ mainpc = "call_seq"
    /\ mainpc' = "in_seq"
    /\ frames' = (1 :> NewFrame(DataBuf, size))
    /\ UNCHANGED <<input, heap, freed, failures, faults, size, sorted_non_threaded,
                   sorted_threaded, exit_status, tasks, thread_count,
                   thread_count_mutex, part>>

\* int *sorted_non_threaded = quicksort(size, data): the return
MainSeqReturn ==
    /\ mainpc = "in_seq"
    /\ frames[1].pc = "returned"
    /\ sorted_non_threaded' = frames[1].retval
    /\ mainpc' = "create"
    /\ UNCHANGED <<input, heap, freed, failures, faults, size, sorted_threaded,
                   exit_status, frames, tasks, thread_count,
                   thread_count_mutex, part>>

\* ThreadArgs args = {data, size};
\* pthread_create(&main_thread, NULL, quicksort_threaded, &args);
MainCreate ==
    /\ mainpc = "create"
    /\ mainpc' = "join"
    /\ tasks' = (1 :> NewTask)
    /\ UNCHANGED <<input, heap, freed, failures, faults, size, sorted_non_threaded,
                   sorted_threaded, exit_status, frames, thread_count,
                   thread_count_mutex, part>>

\* pthread_join(main_thread, (void **)&sorted_threaded);
MainJoin ==
    /\ mainpc = "join"
    /\ Terminated(1)
    /\ sorted_threaded' = tasks[1].retval
    /\ mainpc' = "joined"
    /\ UNCHANGED <<input, heap, freed, failures, faults, size, sorted_non_threaded,
                   exit_status, frames, tasks, thread_count,
                   thread_count_mutex, part>>

\* free(data); free(sorted_non_threaded); free(sorted_threaded); return 0;
MainExit ==
    /\ mainpc = "joined"
    /\ heap' = Free(heap, {DataBuf, sorted_non_threaded, sorted_threaded})
    /\ freed' = freed \cup
                FreedBy({DataBuf, sorted_non_threaded, sorted_threaded})
    /\ exit_status' = 0
    /\ mainpc' = "exit"
    /\ UNCHANGED <<input, faults, failures, size, sorted_non_threaded,
                   sorted_threaded, frames, tasks, thread_count,
                   thread_count_mutex, part>>

\* The state once main has read the file into data[0..size-1].
Init ==
    /\ input \in Inputs
    /\ heap = (DataBuf :> input)
    /\ freed = {}
    /\ failures = 0
    /\ faults = 0
    /\ size = Len(input)
    /\ mainpc = "call_seq"
    /\ sorted_non_threaded = NULL
    /\ sorted_threaded = NULL
    /\ exit_status = -1
    /\ frames = <<>>
    /\ tasks = <<>>
    /\ thread_count = 0
    /\ thread_count_mutex = 0
    /\ part = [pc |-> "none"]

Next ==
    \/ MainCallSeq
    \/ \E f \in DOMAIN frames : SeqBase(f)
    \/ \E f \in DOMAIN frames : SeqPartition(f)
    \/ \E f \in DOMAIN frames : SeqCallLess(f)
    \/ \E f \in DOMAIN frames : SeqRetLess(f)
    \/ \E f \in DOMAIN frames : SeqCallMore(f)
    \/ \E f \in DOMAIN frames : SeqRetMore(f)
    \/ \E f \in DOMAIN frames : SeqMerge(f)
    \/ \E f \in DOMAIN frames : SeqFree(f)
    \/ MainSeqReturn
    \/ MainCreate
    \/ \E t \in DOMAIN tasks : Lock(t)
    \/ \E t \in DOMAIN tasks : Load(t)
    \/ \E t \in DOMAIN tasks : Store(t)
    \/ \E t \in DOMAIN tasks : Unlock(t)
    \/ \E t \in DOMAIN tasks : ThrBase(t)
    \/ \E t \in DOMAIN tasks : ThrPartition(t)
    \/ \E t \in DOMAIN tasks : CreateLess(t)
    \/ \E t \in DOMAIN tasks : CreateMore(t)
    \/ \E t \in DOMAIN tasks : JoinLess(t)
    \/ \E t \in DOMAIN tasks : JoinMore(t)
    \/ \E t \in DOMAIN tasks : ThrMerge(t)
    \/ \E t \in DOMAIN tasks : ThrFree(t)
    \/ MainJoin
    \/ MainExit

Spec == Init /\ [][Next]_vars

\* The same program when up to MaxFail malloc calls return NULL.
FailInit ==
    /\ input \in FailInputs
    /\ heap = (DataBuf :> input)
    /\ freed = {}
    /\ failures = 0
    /\ faults = MaxFail
    /\ size = Len(input)
    /\ mainpc = "call_seq"
    /\ sorted_non_threaded = NULL
    /\ sorted_threaded = NULL
    /\ exit_status = -1
    /\ frames = <<>>
    /\ tasks = <<>>
    /\ thread_count = 0
    /\ thread_count_mutex = 0
    /\ part = [pc |-> "none"]

FailSpec == FailInit /\ [][Next]_vars

\* The program on the short inputs under a scheduler that does not stop
\* while some thread can run.
LiveInit == Init /\ input \in FailInputs

LiveSpec == LiveInit /\ [][Next]_vars /\ WF_vars(Next)

\* The environment runs short of memory once the sequential sort is over:
\* from here on up to MaxFail malloc calls may return NULL.
MemoryPressure ==
    /\ mainpc = "create"
    /\ faults = 0
    /\ faults' = MaxFail
    /\ UNCHANGED <<input, heap, freed, failures, size, mainpc,
                   sorted_non_threaded, sorted_threaded, exit_status, frames,
                   tasks, thread_count, thread_count_mutex, part>>

ThrFailNext == Next \/ MemoryPressure

ThrFailInit == Init /\ input \in FailInputs

\* The program when malloc may fail during the threaded sort only.
ThrFailSpec == ThrFailInit /\ [][ThrFailNext]_vars

\* ------------------------------------------- partition called on its own
PartArr == Buf("part", 0, "arr")

\* A caller about to call partition(arr, size, pivot, ...) on a non-empty
\* array with any pivot.
PartInit ==
    /\ input \in PartInputs
    /\ heap = (PartArr :> input)
    /\ freed = {}
    /\ failures = 0
    /\ faults = MaxFail
    /\ size = Len(input)
    /\ mainpc = "none"
    /\ sorted_non_threaded = NULL
    /\ sorted_threaded = NULL
    /\ exit_status = -1
    /\ frames = <<>>
    /\ tasks = <<>>
    /\ thread_count = 0
    /\ thread_count_mutex = 0
    /\ \E pivot \in PartValues :
         part = [pc |-> "call", pivot |-> pivot, before |-> DOMAIN heap,
                 out |-> partition(<<>>, 0, pivot, Fields)]

\* The call and its return.
PartCall ==
    /\ part.pc = "call"
    /\ \E failed \in AllocFailures :
         LET p == partition(heap[PartArr], size, part.pivot, failed)
         IN /\ heap' = PartitionHeap(heap, "part", 0, p)
            /\ failures' = failures + Cardinality(failed)
            /\ part' = [part EXCEPT !.pc = "returned", !.out = p]
    /\ UNCHANGED <<input, faults, freed, size, mainpc, sorted_non_threaded,
                   sorted_threaded, exit_status, frames, tasks, thread_count,
                   thread_count_mutex>>

\* The caller frees what a successful call handed over.
PartRelease ==
    /\ part.pc = "returned"
    /\ part.out.rc = 0
    /\ heap' = Free(heap, {Buf("part", 0, f) : f \in Fields})
    /\ freed' = freed \cup {Buf("part", 0, f) : f \in Fields}
    /\ part' = [part EXCEPT !.pc = "released"]
    /\ UNCHANGED <<input, faults, failures, size, mainpc,
                   sorted_non_threaded, sorted_threaded, exit_status, frames,
                   tasks, thread_count, thread_count_mutex>>

PartNext == PartCall \/ PartRelease

PartSpec == PartInit /\ [][PartNext]_vars

\* ================================================================ claims
Range(s) == {s[i] : i \in 1..Len(s)}
Count(s, v) == Cardinality({i \in 1..Len(s) : s[i] = v})
IsSorted(s) == \A i, j \in 1..Len(s) : i < j => s[i] <= s[j]
IsPermutation(s, t) ==
    /\ Len(s) = Len(t)
    /\ \A v \in Range(s) \cup Range(t) : Count(s, v) = Count(t, v)
\* The sequence a returned pointer stands for (NULL: the empty result).
Content(p) == IF p = NULL THEN <<>> ELSE heap[p]
SeqReturned == mainpc \in {"create", "join", "joined"}

\* C1: when no allocation failed, the sequence the top-level
\* quicksort_threaded thread returns is, under every interleaving, the
\* sequence the sequential quicksort returned on the same input.
C1_ThreadedEqualsSequential ==
    (mainpc = "joined" /\ failures = 0) =>
        /\ Len(Content(sorted_threaded)) = size
        /\ Content(sorted_threaded) = Content(sorted_non_threaded)

C1_Witness ==
    /\ mainpc = "joined"
    /\ input = <<2, 1, 2>>
    /\ Content(sorted_threaded) = <<1, 2, 2>>
    /\ Content(sorted_non_threaded) = <<1, 2, 2>>

\* C2: when no allocation failed, the output of quicksort(size, data) has
\* the length and the multiset of values of its input and is in
\* non-descending order.
C2_SequentialSorts ==
    (SeqReturned /\ failures = 0) =>
        /\ Len(Content(sorted_non_threaded)) = Len(input)
        /\ IsPermutation(Content(sorted_non_threaded), input)
        /\ IsSorted(Content(sorted_non_threaded))

C2_Witness ==
    /\ mainpc = "create"
    /\ input = <<2, 1, 1>>
    /\ Content(sorted_non_threaded) = <<1, 1, 2>>

\* C3 as stated: after the top-level quicksort_threaded on a one-element
\* sequence has been joined, the result is that element and thread_count
\* is 1.
C3_SingletonCountsOne ==
    (mainpc = "joined" /\ size = 1 /\ failures = 0) =>
        /\ Content(sorted_threaded) = input
        /\ thread_count = 1

\* C3 amended: after the top-level quicksort_threaded on a one-element
\* sequence has been joined (no allocation having failed), the result is
\* that element and thread_count is 3: the top-level thread and the two
\* threads it creates for its empty less and more partitions.
C3_SingletonCountsThree ==
    (mainpc = "joined" /\ size = 1 /\ failures = 0) =>
        /\ Content(sorted_threaded) = input
        /\ thread_count = 3

C3_Witness ==
    /\ mainpc = "joined"
    /\ size = 1
    /\ DOMAIN tasks = {1, 2, 3}
    /\ Content(sorted_threaded) = input

\* C4: every invocation of quicksort_threaded increments thread_count
\* exactly once, holding thread_count_mutex, before it partitions: a thread
\* between lock and unlock owns the mutex, thread_count is at every moment
\* the number of invocations that have completed their increment, no
\* thread has partitioned before its increment, and once the top-level
\* thread is joined thread_count is the number of invocations made.
Incremented == {t \in DOMAIN tasks : tasks[t].pc \notin {"lock", "load", "store"}}

C4_CounterCountsInvocations ==
    /\ \A t \in DOMAIN tasks :
         tasks[t].pc \in {"load", "store", "unlock"} => thread_count_mutex = t
    /\ thread_count = Cardinality(Incremented)
    /\ \A t \in DOMAIN tasks :
         (tasks[t].less # NULL \/ Terminated(t)) => t \in Incremented
    /\ mainpc \in {"joined", "exit"} => thread_count = Cardinality(DOMAIN tasks)

C4_Witness ==
    /\ mainpc = "joined"
    /\ Cardinality(DOMAIN tasks) = 5
    /\ thread_count = 5
    /\ \E t \in DOMAIN tasks : tasks[t].size = 0

\* C5: when a child thread fails in partition, its parent, having joined
\* it, returns failure without calling merge on the child's absent result.
C5_ParentPropagatesChildFailure ==
    \A t \in DOMAIN tasks : \A c \in {2 * t, 2 * t + 1} :
        (c \in DOMAIN tasks /\ tasks[c].pc = "exited") =>
            /\ tasks[t].pc # "free"
            /\ tasks[t].pc = "done" => tasks[t].retval = NULL

\* C6: in the sequential sort a partition failure at any depth aborts the
\* whole sort: no enclosing frame merges the failed sub-call's result and
\* the top-level call returns the failure indication (NULL).
C6_SequentialAbortsOnFailure ==
    /\ \A f \in DOMAIN frames : \A c \in {2 * f, 2 * f + 1} :
         (c \in DOMAIN frames /\ frames[c].rc < 0) =>
             /\ frames[f].pc # "free"
             /\ frames[f].pc = "returned" => frames[f].retval = NULL
    /\ (SeqReturned /\ \E f \in DOMAIN frames : frames[f].rc < 0) =>
           sorted_non_threaded = NULL

\* C7: a call of partition that fails returns -1 and leaves no allocation
\* live that was not live before the call.
C7_FailedPartitionFreesAll ==
    (part.pc = "returned" /\ failures > 0) =>
        /\ part.out.rc = -1
        /\ DOMAIN heap = part.before

\* C8: a quicksort_threaded thread on a non-empty sequence has neither
\* allocated its result nor called merge while its less-thread or its
\* more-thread is still running.
PastJoin(t) ==
    \/ tasks[t].pc \in {"merge", "free"}
    \/ tasks[t].pc = "done" /\ tasks[t].size > 0
    \/ tasks[t].result # NULL
    \/ Buf("thr", t, "result") \in DOMAIN heap

C8_JoinIsBarrier ==
    \A t \in DOMAIN tasks :
        PastJoin(t) => Terminated(2 * t) /\ Terminated(2 * t + 1)

C8_Witness ==
    \E t \in DOMAIN tasks :
        /\ tasks[t].pc = "free"
        /\ tasks[t].less_size > 0
        /\ Terminated(2 * t) /\ Terminated(2 * t + 1)

\* C9: for a non-empty sequence S and a pivot p, partition returns less,
\* equal and more with every element of less < p, of equal = p, of more > p,
\* the three sizes summing to |S|, and every element of S in exactly one of
\* the three.
C9_PartitionSplits ==
    (part.pc = "returned" /\ part.out.rc = 0) =>
        LET o == part.out
            all == o.less \o o.equal \o o.more
        IN /\ \A i \in 1..Len(o.less) : o.less[i] < part.pivot
           /\ \A i \in 1..Len(o.equal) : o.equal[i] = part.pivot
           /\ \A i \in 1..Len(o.more) : o.more[i] > part.pivot
           /\ Len(o.less) + Len(o.equal) + Len(o.more) = Len(input)
           /\ IsPermutation(all, input)
           /\ heap[Buf("part", 0, "less")] = o.less
           /\ heap[Buf("part", 0, "equal")] = o.equal
           /\ heap[Buf("part", 0, "more")] = o.more

\* The spec's example [5,3,8,3,1] on pivot 5, with the values renamed to
\* their ranks 1..4.
C9_Witness ==
    /\ part.pc = "returned"
    /\ input = <<3, 2, 4, 2, 1>>
    /\ part.pivot = 3
    /\ part.out.rc = 0
    /\ part.out.less = <<2, 2, 1>>
    /\ part.out.equal = <<3>>
    /\ part.out.more = <<4>>

\* C10: if an allocation failed inside either sort, main returns a
\* non-zero exit status.
C10_FailureExitsNonZero ==
    (mainpc = "exit" /\ failures > 0) => exit_status # 0

\* C11: neither sort nor partition writes to a sequence it was passed: no
\* step changes the contents of a buffer that stays allocated, so every
\* caller's array holds after the call what it held before, and main's
\* data still holds the unsorted input when it is passed to the threaded
\* sort and after that sort has been joined.
C11_InputNeverWritten ==
    [][/\ \A b \in DOMAIN heap \cap DOMAIN heap' : heap'[b] = heap[b]
       /\ mainpc' \in {"in_seq", "create", "join", "joined"} =>
              heap'[DataBuf] = input]_vars

C11_Witness ==
    /\ mainpc = "joined"
    /\ input = <<2, 2, 1>>
    /\ heap[DataBuf] = <<2, 2, 1>>
    /\ sorted_non_threaded # NULL
    /\ sorted_threaded # NULL

\* C12: on an empty input both sorts return the empty result (NULL) without
\* an error, no call on a size-0 sequence invokes partition or makes a
\* sub-call or sub-task, and a top-level empty threaded sort leaves
\* thread_count at 1.
NeverPartitioned(kind, id, fr) ==
    /\ fr.less = NULL /\ fr.more = NULL /\ fr.equal = NULL
    /\ fr.rc = 0
    /\ fr.retval = NULL
    /\ \A f \in Fields \cup {"result"} :
         Buf(kind, id, f) \notin DOMAIN heap \cup freed

C12_EmptyInput ==
    /\ \A f \in DOMAIN frames :
         frames[f].size = 0 =>
             /\ NeverPartitioned("seq", f, frames[f])
             /\ 2 * f \notin DOMAIN frames /\ 2 * f + 1 \notin DOMAIN frames
    /\ \A t \in DOMAIN tasks :
         ArgsOf(t).size = 0 =>
             /\ NeverPartitioned("thr", t, tasks[t])
             /\ tasks[t].pc # "exited"
             /\ 2 * t \notin DOMAIN tasks /\ 2 * t + 1 \notin DOMAIN tasks
    /\ (size = 0 /\ mainpc \in {"joined", "exit"}) =>
             /\ sorted_non_threaded = NULL
             /\ sorted_threaded = NULL
             /\ tasks[1].pc = "done"
             /\ DOMAIN tasks = {1}
             /\ thread_count = 1

C12_Witness ==
    /\ size = 0
    /\ mainpc = "joined"
    /\ tasks[1].pc = "done"
    /\ frames[1].pc = "returned"
    /\ thread_count = 1

\* C13: sorting is idempotent: on an input already in non-descending order
\* both sorts return the input, and sorting the output of a sort returns
\* that output.
C13_Idempotent ==
    (mainpc = "joined" /\ failures = 0) =>
        LET out == Content(sorted_non_threaded)
        IN /\ IsSorted(input) =>
                 /\ out = input
                 /\ Content(sorted_threaded) = input
           /\ out = quicksort(size, input)
           /\ quicksort(Len(out), out) = out
           /\ Content(sorted_threaded) = quicksort(Len(out), out)

C13_Witness ==
    /\ mainpc = "joined"
    /\ input = <<1, 2, 2>>
    /\ Content(sorted_non_threaded) = <<1, 2, 2>>
    /\ Content(sorted_threaded) = <<1, 2, 2>>

\* C14: a quicksort_threaded thread on a non-empty sequence goes through
\* Start ("lock".."start"), Partitioned ("create_less", "create_more"),
\* both children running ("join_less", "join_more"), both joined ("merge"),
\* Merged ("free") and Done ("done") in that order, skipping none; a thread
\* whose partition fails goes from Start straight to Failed ("exited") and
\* has created neither child.
ThrOrder ==
    {<<"lock", "load">>, <<"load", "store">>, <<"store", "unlock">>,
     <<"unlock", "start">>, <<"start", "create_less">>,
     <<"create_less", "create_more">>, <<"create_more", "join_less">>,
     <<"join_less", "join_more">>, <<"join_more", "merge">>,
     <<"merge", "free">>, <<"free", "done">>,
     <<"start", "done">>, <<"start", "exited">>}

Children(T, t) == {2 * t, 2 * t + 1} \cap DOMAIN T

C14_TaskStateMachine ==
    [][\A t \in DOMAIN tasks' :
         IF t \notin DOMAIN tasks THEN tasks'[t].pc = "lock"
         ELSE LET a == tasks[t]
                  b == tasks'[t]
              IN /\ a.pc # b.pc => <<a.pc, b.pc>> \in ThrOrder
                 /\ (a.pc = "start" /\ b.pc = "done") =>
                        b.size = 0 /\ Children(tasks', t) = {}
                 /\ (a.pc = "start" /\ b.pc = "create_less") =>
                        /\ b.size > 0 /\ b.rc = 0
                        /\ Children(tasks', t) = {}
                 /\ (a.pc = "start" /\ b.pc = "exited") =>
                        b.size > 0 /\ b.rc < 0
                 /\ b.pc = "exited" => Children(tasks', t) = {}
                 /\ b.pc = "create_more" => Children(tasks', t) = {2 * t}
                 /\ b.pc \in {"join_less", "join_more", "merge", "free"} =>
                        Children(tasks', t) = {2 * t, 2 * t + 1}
                 /\ b.pc = "merge" =>
                        Terminated(2 * t)' /\ Terminated(2 * t + 1)'
                 /\ (a.pc = "free" /\ b.pc = "done") =>
                        b.retval = b.result]_vars

C14_Witness ==
    /\ mainpc = "joined"
    /\ \E t \in DOMAIN tasks :
         tasks[t].pc = "exited" /\ Children(tasks, t) = {}
    /\ \E t \in DOMAIN tasks :
         tasks[t].pc = "done" /\ tasks[t].size > 0

\* C19: a thread that fails in partition leaves the counter consistent: its
\* own increment is applied, thread_count stays the number of invocations
\* that have incremented, and after the top-level join thread_count is the
\* number of invocations started.
Failed == {t \in DOMAIN tasks : tasks[t].pc = "exited"}

C19_FailedTaskKeepsCounter ==
    /\ Failed \subseteq Incremented
    /\ thread_count = Cardinality(Incremented \ Failed) + Cardinality(Failed)
    /\ thread_count_mutex \notin Failed
    /\ mainpc \in {"joined", "exit"} =>
           thread_count = Cardinality(DOMAIN tasks)

C19_Witness ==
    /\ mainpc = "joined"
    /\ Failed # {}
    /\ 1 \notin Failed
    /\ thread_count = Cardinality(DOMAIN tasks)

\* C15 as stated: whenever a child thread is at the point where it reads its
\* ThreadArgs and partitions the parent's buffer, the parent is blocked in
\* one of its two pthread_join calls.
Reading(t) == t \in DOMAIN tasks /\ tasks[t].pc = "start"

C15_ParentBlockedInJoin ==
    \A c \in DOMAIN tasks \ {1} :
        Reading(c) => tasks[c \div 2].pc \in {"join_less", "join_more"}

\* The buffers the next step of thread t reads, writes or frees.
Accesses(t) ==
    LET fr == tasks[t]
    IN CASE fr.pc = "start" ->
              IF ArgsOf(t).size > 0 THEN {ArgsOf(t).data} ELSE {}
         [] fr.pc = "merge" ->
              {fr.equal, fr.sorted_less, fr.sorted_more} \ {NULL}
         [] fr.pc = "free" -> Intermediates(fr) \ {NULL}
         [] OTHER -> {}

\* The pointers free is called with at the five free calls of a frame, NULL
\* apart, are live and no two of them are the same buffer.
LiveDistinct(fr) ==
    LET ptrs == <<fr.less, fr.more, fr.equal, fr.sorted_less, fr.sorted_more>>
    IN \A i \in 1..5 :
         ptrs[i] # NULL =>
            /\ ptrs[i] \in DOMAIN heap
            /\ \A j \in 1..5 : j # i => ptrs[j] # ptrs[i]

FreesOnce(t) == LiveDistinct(tasks[t])

\* C15: every sequence buffer is accessed by at most one thread at a time.
\* While a child has not terminated, its parent is in the pthread_create of
\* more_thread or blocked in a pthread_join, accesses no buffer, and the
\* buffer given to the child is live; the sibling was given another buffer;
\* less, more, equal and the children's results are freed only after both
\* children have terminated, each once, and no thread accesses a freed
\* buffer.
C15_BuffersExclusive ==
    /\ freed \cap DOMAIN heap = {}
    /\ \A t \in DOMAIN tasks :
         /\ Accesses(t) \subseteq DOMAIN heap
         /\ \A u \in DOMAIN tasks : u # t => Accesses(t) \cap Accesses(u) = {}
         /\ tasks[t].pc = "free" => FreesOnce(t)
         /\ (t # 1 /\ ~Terminated(t)) =>
              /\ tasks[t \div 2].pc \in {"create_more", "join_less", "join_more"}
              /\ Accesses(t \div 2) = {}
              /\ ArgsOf(t).data \in DOMAIN heap
         /\ {2 * t, 2 * t + 1} \subseteq DOMAIN tasks =>
              ArgsOf(2 * t).data # ArgsOf(2 * t + 1).data
         /\ ({Buf("thr", t, f) : f \in Fields} \cap freed # {}) =>
              /\ tasks[t].pc = "done"
              /\ Terminated(2 * t) /\ Terminated(2 * t + 1)
         /\ (t # 1 /\ Buf("thr", t, "result") \in freed) =>
              /\ tasks[t \div 2].pc = "done"
              /\ Terminated(2 * (t \div 2)) /\ Terminated(2 * (t \div 2) + 1)
    /\ (ThrRunning \/ mainpc = "joined") =>
         /\ DataBuf \in DOMAIN heap
         /\ Buf("thr", 1, "result") \notin freed

C15_Witness ==
    \E t \in DOMAIN tasks :
        /\ tasks[t].pc = "create_more"
        /\ Reading(2 * t)
        /\ ArgsOf(2 * t).size > 0
        /\ Accesses(2 * t) = {tasks[t].less}
        /\ Accesses(t) = {}

\* C16: when no allocation fails, once the top-level quicksort has returned
\* and once the top-level quicksort_threaded has been joined, every buffer
\* the sort allocated (less, more, equal and result of every invocation on
\* a non-empty sequence) other than the returned result has been freed, by
\* a free of a live buffer, and the result is the sort's only live buffer.
Allocated(kind, F) ==
    {Buf(kind, f, x) : f \in {g \in DOMAIN F : F[g].size > 0},
                       x \in Fields \cup {"result"}}

C16_NoLeak ==
    /\ freed \cap DOMAIN heap = {}
    /\ \A f \in DOMAIN frames :
         frames[f].pc = "free" => LiveDistinct(frames[f])
    /\ \A t \in DOMAIN tasks :
         tasks[t].pc = "free" => LiveDistinct(tasks[t])
    /\ (failures = 0 /\ mainpc = "create") =>
         /\ DOMAIN heap = {DataBuf} \cup ({sorted_non_threaded} \ {NULL})
         /\ freed = Allocated("seq", frames) \ {sorted_non_threaded}
    /\ (failures = 0 /\ mainpc = "joined") =>
         /\ DOMAIN heap =
              {DataBuf} \cup ({sorted_non_threaded, sorted_threaded} \ {NULL})
         /\ freed = (Allocated("seq", frames) \cup Allocated("thr", tasks))
                       \ {sorted_non_threaded, sorted_threaded}

C16_Witness ==
    /\ mainpc = "joined"
    /\ failures = 0
    /\ size = MaxLen
    /\ Cardinality(Range(input)) = 2
    /\ DOMAIN heap = {DataBuf, Buf("seq", 1, "result"), Buf("thr", 1, "result")}
    /\ Cardinality(freed) = 14

\* C18: when no allocation fails, after the top-level quicksort_threaded
\* has been joined thread_count is 2 * d + 1, d the number of distinct
\* values of the input: d threads ran on a non-empty sequence, each taking
\* one value as pivot and creating two threads, and d + 1 ran on an empty
\* one.
Distinct(seq) == Cardinality(Range(seq))

NonEmptyTasks == {t \in DOMAIN tasks : ArgsOf(t).size > 0}

C18_CountIsTwiceDistinctPlusOne ==
    (mainpc = "joined" /\ failures = 0) =>
        /\ thread_count = 2 * Distinct(input) + 1
        /\ Cardinality(NonEmptyTasks) = Distinct(input)
        /\ Cardinality(DOMAIN tasks \ NonEmptyTasks) = Distinct(input) + 1
        /\ {tasks[t].pivot : t \in NonEmptyTasks} = Range(input)

C18_Witness ==
    /\ mainpc = "joined"
    /\ failures = 0
    /\ input = <<2, 1, 2>>
    /\ Distinct(input) = 2
    /\ thread_count = 5

\* C17: under fair scheduling every quicksort_threaded thread terminates and
\* main's pthread_join returns. thread_count_mutex is held only by a thread
\* inside the increment, each child is given a sequence strictly shorter
\* than its parent's, a thread that has not terminated can take a step
\* unless it waits for the mutex or for a child that has not terminated, and
\* no state short of main's exit is a deadlock.
Holder == thread_count_mutex

CanStep(t) ==
    CASE tasks[t].pc = "lock" -> Holder = 0
      [] tasks[t].pc = "join_less" -> Terminated(2 * t)
      [] tasks[t].pc = "join_more" -> Terminated(2 * t + 1)
      [] OTHER -> TRUE

C17_Progress ==
    /\ Holder # 0 =>
          /\ Holder \in DOMAIN tasks
          /\ tasks[Holder].pc \in {"load", "store", "unlock"}
    /\ \A t \in DOMAIN tasks :
          /\ tasks[t].pc \in {"load", "store", "unlock"} => Holder = t
          /\ t # 1 => ArgsOf(t).size < ArgsOf(t \div 2).size
          /\ tasks[t].pc \in {"join_less", "join_more"} =>
                {2 * t, 2 * t + 1} \subseteq DOMAIN tasks
          /\ (ThrRunning /\ ~Terminated(t) /\ CanStep(t)) =>
                ENABLED (Next /\ tasks'[t].pc # tasks[t].pc)
    /\ mainpc # "exit" => ENABLED Next
    /\ mainpc \in {"joined", "exit"} => \A t \in DOMAIN tasks : Terminated(t)

C17_Terminates ==
    /\ []C17_Progress
    /\ (mainpc = "join") ~> (mainpc = "joined")
    /\ <>(mainpc = "exit")

C17_Witness ==
    /\ mainpc = "exit"
    /\ size = FailMaxLen
    /\ Cardinality(DOMAIN tasks) = 5
    /\ \A t \in DOMAIN tasks : Terminated(t)
    /\ Holder = 0

====
